---- MODULE Spec2Model ----
(***************************************************************************)
(* The experimentation (A/B testing) engine of olympus-cloud-gcp:          *)
(* ABTestingService (app/services/analytics/ab_testing.py), its pydantic   *)
(* models (app/models/experiments.py) and its routes                       *)
(* (app/api/experiments_routes.py), over the two tables                    *)
(* analytics.experiments and analytics.experiment_participants.            *)
(*                                                                         *)
(* Encodings.  An Optional value is a sequence: <<>> is None, <<x>> is x.  *)
(* A string that the code hands to uuid.UUID is a pair <<form, n>>: the    *)
(* forms "canon" and "upper" parse to the UUID n, "bad" is not a UUID and  *)
(* "empty" is the empty string.  str(uuid) always yields the "canon" form. *)
(* Allocations are in hundredths (50 is 0.5); conversion values and times  *)
(* are small integers.  A rate is the pair [num, den] it is computed from. *)
(***************************************************************************)
EXTENDS Integers, Sequences, FiniteSets, TLC

\* ------------------------------------------------------------------ bounds
\* experiments that may be created, and assignment rows that may be inserted
MaxExperiments == 1
MaxRows == 2

\* ------------------------------------------------------------- encodings
None == <<>>
Some(x) == <<x>>

\* the timestamps a request or the clock may carry
Times == {1, 2}
\* the participant ids callers name: those of the rows and one more
ParticipantIds == 1..(MaxRows + 1)

EmptyString == <<"empty", 0>>
BadUuidString == <<"bad", 0>>
\* the strings a caller may send where the code expects a UUID
UuidStrings == {<<"canon", 1>>, <<"upper", 1>>, <<"canon", 2>>, BadUuidString}
ParticipantIdStrings == ({"canon"} \X ParticipantIds) \cup {<<"upper", 1>>, BadUuidString}

\* uuid.UUID(s) raises ValueError unless s is the text of a UUID
uuid_UUID_ok(s) == s[1] \in {"canon", "upper"}
uuid_UUID(s) == s[2]
\* str(u): the canonical lower-case text
str_uuid(u) == <<"canon", u>>

\* Python truthiness of an Optional[str] that holds a UUID text
TruthyId(o) == o # None /\ o[1] # EmptyString
\* ... and of an Optional[str] that holds a plain string
TruthyStr(o) == o # None /\ o[1] # ""

RECURSIVE SumSeq(_, _)
\* sum(f(x) for x in seq), as Python's sum over a list
SumSeq(seq, i) == IF i > Len(seq) THEN 0 ELSE seq[i] + SumSeq(seq, i + 1)

RECURSIVE SumSet(_)
\* SQL SUM over a set of rows' values (the members are <<id, value>> pairs)
SumSet(S) == IF S = {} THEN 0 ELSE LET x == CHOOSE y \in S : TRUE IN x[2] + SumSet(S \ {x})

Abs(x) == IF x < 0 THEN -x ELSE x

VARIABLES experiments, participants, resp, sessions
vars == <<experiments, participants, resp, sessions>>

\* ============================================================ data model
\* ExperimentStatus
ExperimentStatus == {"draft", "running", "paused", "completed", "archived"}

\* ExperimentVariant: allocation: float = Field(..., gt=0.0, le=1.0), in hundredths
ExperimentVariant_valid(v) == v.allocation > 0 /\ v.allocation <= 100

\* the tolerance 0.01 of validate_allocation, in hundredths
AllocationTolerance == 1

\* bug: the tolerance is ten times too wide (0.1 for 0.01)
validate_allocation_loose(variants) ==
    LET total_allocation == SumSeq([i \in 1..Len(variants) |-> variants[i].allocation], 1)
    IN  IF Abs(total_allocation - 100) > 10 THEN {FALSE} ELSE {TRUE}

\* validate_allocation: abs(sum(allocations) - 1.0) > 0.01 raises.  The set of
\* verdicts (TRUE = accepted): exactly on the tolerance the IEEE rounding of the
\* float sum decides (0.5 + 0.51 is rejected, 0.01 + 0.05 + 0.93 is accepted).
validate_allocation(variants) ==
    LET total_allocation == SumSeq([i \in 1..Len(variants) |-> variants[i].allocation], 1)
        off == Abs(total_allocation - 100)
    IN  IF off > AllocationTolerance THEN {FALSE}
        ELSE IF off = AllocationTolerance THEN {TRUE, FALSE}
        ELSE {TRUE}

\* ExperimentDefinition: the field constraints and the model validator
ExperimentDefinition_valid(d) ==
    IF /\ Len(d.variants) >= 2
       /\ d.n_metrics >= 1
       /\ \A i \in 1..Len(d.variants) : ExperimentVariant_valid(d.variants[i])
    THEN validate_allocation(d.variants)
    ELSE {FALSE}

\* bug: the validator lets every assignment through
validate_identity_accepts_all(a) == TRUE

\* ParticipantAssignment.validate_identity
validate_identity(a) ==
    TruthyId(a.user_id) \/ TruthyId(a.customer_id) \/ TruthyStr(a.session_id)

\* ================================================================ inputs
V(n, a) == [name |-> n, allocation |-> a]
VariantLists ==
    { <<V("A", 50), V("B", 50)>>,            \* the usual two arms
      <<V("A", 50), V("A", 50)>>,            \* two arms of one name
      <<V("A", 25), V("B", 25), V("C", 50)>>,
      <<V("A", 50), V("B", 51)>>,            \* sum 1.01: on the tolerance
      <<V("A", 51), V("B", 51)>>,            \* sum 1.02
      <<V("A", 49), V("B", 49)>>,            \* sum 0.98
      <<V("A", 100)>>,                       \* one variant
      <<V("A", 0), V("B", 100)>> }           \* an allocation of 0

\* ExperimentDefinition payloads
Definitions ==
    [tenant_id : UuidStrings, variants : VariantLists, n_metrics : {0, 1},
     status : ExperimentStatus]

Identities ==
    { [user_id |-> Some(<<"canon", 1>>), customer_id |-> None, session_id |-> None],
      [user_id |-> Some(<<"upper", 1>>), customer_id |-> None, session_id |-> None],
      [user_id |-> None, customer_id |-> None, session_id |-> Some("s1")],
      [user_id |-> None, customer_id |-> None, session_id |-> None],
      [user_id |-> Some(EmptyString), customer_id |-> None, session_id |-> Some("")] }

AssignmentVariantNames == {"A", "B"}

\* ParticipantAssignmentRequest plus the experiment_id of the path
AssignmentRequests ==
    [experiment_id : UuidStrings \ {<<"upper", 1>>}, variant_name : AssignmentVariantNames,
     identity : Identities, assigned_at : {None} \cup {Some(t) : t \in Times}]

\* the (converted_at, conversion_value) pairs of a ConversionUpdate
ConversionPayloads ==
    { [converted_at |-> 1, conversion_value |-> None],
      [converted_at |-> 2, conversion_value |-> Some(5)] }

\* ConversionUpdate plus the experiment_id of the path
ConversionRequests ==
    { [experiment_id |-> e, participant_id |-> pid,
       converted_at |-> c.converted_at, conversion_value |-> c.conversion_value]
      : e \in UuidStrings \ {BadUuidString}, pid \in ParticipantIdStrings,
        c \in ConversionPayloads }

\* the smaller inputs of the specification of the whole engine
EngineDefinitions ==
    {d \in Definitions : /\ d.tenant_id = <<"canon", 1>>
                         /\ d.status = "draft"
                         /\ d.n_metrics = 1}

EngineTenantStrings == {<<"canon", 1>>, <<"canon", 2>>, BadUuidString}

EngineAssignmentRequests ==
    {req \in AssignmentRequests :
        /\ req.assigned_at = Some(1)
        /\ req.experiment_id \in {<<"canon", 1>>, <<"canon", 2>>}
        /\ req.identity.session_id \in {None, Some("s1")}
        /\ req.identity.user_id \in {None, Some(<<"canon", 1>>)}}

EngineConversionRequests ==
    {req \in ConversionRequests :
        req.experiment_id = <<"canon", 1>> /\ req.participant_id[1] = "canon"}

\* ================================================================= store
\* uuid.uuid4(): an id no row and no open transaction holds.  Ids are named in
\* the order the store first sees them.
uuid4_participant ==
    LET held == {r.id : r \in participants}
                \cup {sessions[s].params.id : s \in {t \in DOMAIN sessions : sessions[t].pc # "idle"}}
    IN  CHOOSE n \in 1..(Cardinality(held) + 1) : n \notin held

\* uuid.uuid4() of create_experiment
uuid4_experiment == Len(experiments) + 1

\* the conflict target of the upsert: the constraint unique_participant on
\* (experiment_id, identity)
unique_participant(r, p) ==
    /\ r.experiment_id = p.experiment_id
    /\ r.user_id = p.user_id
    /\ r.customer_id = p.customer_id
    /\ r.session_id = p.session_id

\* record_assignment: the uuid.UUID(...) calls that build params succeed
assignment_params_ok(a) ==
    /\ uuid_UUID_ok(a.experiment_id)
    /\ TruthyId(a.user_id) => uuid_UUID_ok(a.user_id[1])
    /\ TruthyId(a.customer_id) => uuid_UUID_ok(a.customer_id[1])

\* record_assignment: params
assignment_params(a, id) ==
    [id |-> id,
     experiment_id |-> uuid_UUID(a.experiment_id),
     user_id |-> IF TruthyId(a.user_id) THEN Some(uuid_UUID(a.user_id[1])) ELSE None,
     customer_id |-> IF TruthyId(a.customer_id) THEN Some(uuid_UUID(a.customer_id[1])) ELSE None,
     session_id |-> a.session_id,
     variant_name |-> a.variant_name,
     assigned_at |-> a.assigned_at]

\* INSERT ... VALUES (...): the row the insert proposes
inserted_row(p) ==
    [id |-> p.id, experiment_id |-> p.experiment_id, user_id |-> p.user_id,
     customer_id |-> p.customer_id, session_id |-> p.session_id,
     variant_name |-> p.variant_name, assigned_at |-> p.assigned_at,
     converted_at |-> None, conversion_value |-> None]

\* bug: ON CONFLICT ... DO NOTHING (the first assignment sticks)
conflict_update_keeps_first(r, p) == r

\* bug: the conflicting row is replaced by the proposed one (INSERT OR REPLACE)
conflict_update_replaces(r, p) ==
    [id |-> r.id, experiment_id |-> p.experiment_id, user_id |-> p.user_id,
     customer_id |-> p.customer_id, session_id |-> p.session_id,
     variant_name |-> p.variant_name, assigned_at |-> p.assigned_at,
     converted_at |-> None, conversion_value |-> None]

\* bug: DO UPDATE SET assigned_at only, the variant is left as it was
conflict_update_assigned_at_only(r, p) ==
    [r EXCEPT !.assigned_at = p.assigned_at]

\* bug: DO UPDATE SET id = EXCLUDED.id as well
conflict_update_takes_new_id(r, p) ==
    [r EXCEPT !.id = p.id, !.variant_name = p.variant_name, !.assigned_at = p.assigned_at]

\* ON CONFLICT ... DO UPDATE SET variant_name = EXCLUDED.variant_name,
\*                               assigned_at = EXCLUDED.assigned_at
conflict_update(r, p) ==
    [r EXCEPT !.variant_name = p.variant_name, !.assigned_at = p.assigned_at]

\* bug: a plain INSERT, no ON CONFLICT clause and no constraint to stop it
upsert_rows_insert_only(rows, p) == rows \cup {inserted_row(p)}

\* the table after the INSERT ... ON CONFLICT statement
upsert_rows(rows, p) ==
    IF \E r \in rows : unique_participant(r, p)
    THEN {IF unique_participant(r, p) THEN conflict_update(r, p) ELSE r : r \in rows}
    ELSE rows \cup {inserted_row(p)}

\* the stored row the insert conflicts with, if there is one
conflicting(rows, p) ==
    IF \E r \in rows : unique_participant(r, p)
    THEN Some(CHOOSE r \in rows : unique_participant(r, p))
    ELSE None

\* RETURNING ...: the row the statement wrote
upsert_returning(rows, p) ==
    CHOOSE r \in upsert_rows(rows, p) : unique_participant(r, p)

\* bug: WHERE id = :participant_id AND converted_at IS NULL (first conversion wins)
conversion_rows_first_wins(rows, pid, u) ==
    {IF r.id = pid /\ r.converted_at = None
     THEN [r EXCEPT !.converted_at = Some(u.converted_at),
                    !.conversion_value = u.conversion_value]
     ELSE r : r \in rows}

\* bug: an update without a conversion_value clears the conversion
conversion_rows_clears_without_value(rows, pid, u) ==
    {IF r.id = pid
     THEN [r EXCEPT !.converted_at = IF u.conversion_value = None THEN None
                                     ELSE Some(u.converted_at),
                    !.conversion_value = u.conversion_value]
     ELSE r : r \in rows}

\* UPDATE ... SET converted_at, conversion_value WHERE id = :participant_id
conversion_rows(rows, pid, u) ==
    {IF r.id = pid
     THEN [r EXCEPT !.converted_at = Some(u.converted_at),
                    !.conversion_value = u.conversion_value]
     ELSE r : r \in rows}

\* _row_to_participant
row_to_participant(row) ==
    [id |-> str_uuid(row.id),
     experiment_id |-> str_uuid(row.experiment_id),
     user_id |-> IF row.user_id # None THEN Some(str_uuid(row.user_id[1])) ELSE None,
     customer_id |-> IF row.customer_id # None THEN Some(str_uuid(row.customer_id[1])) ELSE None,
     session_id |-> row.session_id,
     variant_name |-> row.variant_name,
     assigned_at |-> row.assigned_at,
     converted_at |-> row.converted_at,
     conversion_value |-> row.conversion_value]

\* the rows an open transaction has written and not committed: its row lock
Locked(s, r) ==
    /\ sessions[s].pc = "executed"
    /\ \/ r.id = sessions[s].row.id
       \/ unique_participant(r, sessions[s].params)

\* ============================================================ experiments
\* allocation_payload of create_experiment: {variant.name: allocation}; a later
\* variant of the same name overwrites an earlier one
allocation_payload(variants) ==
    [n \in {variants[i].name : i \in 1..Len(variants)} |->
        LET last == CHOOSE i \in 1..Len(variants) :
                        /\ variants[i].name = n
                        /\ \A j \in (i + 1)..Len(variants) : variants[j].name # n
        IN  variants[last].allocation]

\* the results column of a new row: the INSERT names no results, the column's
\* default is the empty JSON object.  A blob is the set of its <<key, value>> pairs.
results_default == Some({})

\* bug: the status of the definition is not passed to the INSERT
experiment_row_always_draft(d, id, now) ==
    [id |-> id,
     tenant_id |-> uuid_UUID(d.tenant_id),
     variants |-> d.variants,
     traffic_allocation |-> allocation_payload(d.variants),
     n_metrics |-> d.n_metrics,
     status |-> "draft",
     created_at |-> now,
     results |-> results_default]

\* the row INSERT INTO analytics.experiments ... RETURNING yields; created_at is
\* the store's clock, which never runs backwards
experiment_row(d, id, now) ==
    [id |-> id,
     tenant_id |-> uuid_UUID(d.tenant_id),
     variants |-> d.variants,
     traffic_allocation |-> allocation_payload(d.variants),
     n_metrics |-> d.n_metrics,
     status |-> d.status,
     created_at |-> now,
     results |-> results_default]

\* _row_to_experiment
row_to_experiment(row) ==
    [row EXCEPT !.id = str_uuid(row.id), !.tenant_id = str_uuid(row.tenant_id)]

StoreClock == IF Len(experiments) = 0 THEN 0 ELSE experiments[Len(experiments)].created_at

\* POST /api/analytics/experiments: create_experiment
CreateExperiment(d) ==
    /\ \E accepted \in ExperimentDefinition_valid(d) :
        \/ /\ ~accepted
           /\ resp' = [op |-> "create", outcome |-> "ValidationError", req |-> d, before |-> None, body |-> None]
           /\ UNCHANGED experiments
        \/ /\ accepted
           /\ ~uuid_UUID_ok(d.tenant_id)
           /\ resp' = [op |-> "create", outcome |-> "ValueError", req |-> d, before |-> None, body |-> None]
           /\ UNCHANGED experiments
        \/ /\ accepted
           /\ uuid_UUID_ok(d.tenant_id)
           /\ Len(experiments) < MaxExperiments
           /\ \E now \in {StoreClock, StoreClock + 1} \ {0} :
                LET row == experiment_row(d, uuid4_experiment, now)
                IN  /\ experiments' = Append(experiments, row)
                    /\ resp' = [op |-> "create", outcome |-> "ok", req |-> d, before |-> None,
                                body |-> Some(row_to_experiment(row))]
    /\ UNCHANGED <<participants, sessions>>

\* =========================================================== assignments
\* ParticipantAssignmentRequest.to_model: assigned_at or datetime.utcnow()
to_model(req, experiment_id, utcnow) ==
    [experiment_id |-> experiment_id,
     variant_name |-> req.variant_name,
     user_id |-> req.identity.user_id,
     customer_id |-> req.identity.customer_id,
     session_id |-> req.identity.session_id,
     assigned_at |-> IF req.assigned_at # None THEN req.assigned_at[1] ELSE utcnow]

\* what of a refused assignment the response records: who asked, for which experiment
identity_of(a) ==
    [experiment_id |-> a.experiment_id, user_id |-> a.user_id,
     customer_id |-> a.customer_id, session_id |-> a.session_id]

NoOpenTransaction == \A s \in DOMAIN sessions : sessions[s].pc = "idle"

\* the values datetime.utcnow() may take where the request needs it
UtcNow(req) == IF req.assigned_at # None THEN {req.assigned_at[1]} ELSE Times

\* POST /{experiment_id}/participants: assign_participant, record_assignment
\* run from the request to the response with no other request in between
AssignParticipant(req) ==
    /\ NoOpenTransaction
    /\ \E utcnow \in UtcNow(req) :
        LET a == to_model(req, req.experiment_id, utcnow)
            p == assignment_params(a, uuid4_participant)
        IN  IF ~validate_identity(a)
            THEN /\ resp' = [op |-> "assign", outcome |-> "ValidationError",
                             req |-> identity_of(a), before |-> None, body |-> None]
                 /\ UNCHANGED participants
            ELSE IF ~assignment_params_ok(a)
            THEN /\ resp' = [op |-> "assign", outcome |-> "ValueError",
                             req |-> identity_of(a), before |-> None, body |-> None]
                 /\ UNCHANGED participants
            ELSE /\ Cardinality(upsert_rows(participants, p)) <= MaxRows
                 /\ participants' = upsert_rows(participants, p)
                 /\ resp' = [op |-> "assign", outcome |-> "ok", req |-> a,
                             before |-> conflicting(participants, p),
                             body |-> Some(row_to_participant(upsert_returning(participants, p)))]
    /\ UNCHANGED <<experiments, sessions>>

\* record_assignment when session.execute or session.commit raises
\* SQLAlchemyError: rollback, log, re-raise; nothing is written
AssignParticipantFails ==
    /\ NoOpenTransaction
    /\ resp' = [op |-> "assign", outcome |-> "SQLAlchemyError",
                req |-> None, before |-> None, body |-> None]
    /\ UNCHANGED <<experiments, participants, sessions>>

\* ------------------------------------------------- the handler, step by step
\* The same handler as the awaits of record_assignment split it: the request
\* arrives and params are built; session.execute runs the statement inside the
\* session's transaction; session.commit makes the row visible.  A statement
\* that would write a row another open transaction has written waits for that
\* transaction to end (the store is the only serialization point).

\* the request arrives: to_model, then params
AssignBegin(s, req) ==
    /\ sessions[s].pc = "idle"
    /\ \E utcnow \in UtcNow(req) :
        LET a == to_model(req, req.experiment_id, utcnow)
        IN  /\ validate_identity(a)
            /\ assignment_params_ok(a)
            /\ sessions' = [sessions EXCEPT
                    ![s] = [pc |-> "begun", params |-> assignment_params(a, uuid4_participant)]]
    /\ UNCHANGED <<experiments, participants, resp>>

\* bug: look the row up, then write, with nothing that makes the second
\* request wait for the first (check-then-act instead of one atomic upsert)
AssignExecute_check_then_act(s) ==
    /\ sessions[s].pc = "begun"
    /\ sessions' = [sessions EXCEPT
            ![s] = [pc |-> "executed", params |-> sessions[s].params,
                    row |-> upsert_returning(participants, sessions[s].params)]]
    /\ UNCHANGED <<experiments, participants, resp>>

\* await session.execute(query, params)
AssignExecute(s) ==
    /\ sessions[s].pc = "begun"
    /\ \A t \in DOMAIN sessions \ {s} :
            ~(sessions[t].pc = "executed"
              /\ unique_participant(sessions[t].row, sessions[s].params))
    /\ sessions' = [sessions EXCEPT
            ![s] = [pc |-> "executed", params |-> sessions[s].params,
                    row |-> upsert_returning(participants, sessions[s].params)]]
    /\ UNCHANGED <<experiments, participants, resp>>

\* await session.commit(); result.one(); _row_to_participant
AssignCommit(s) ==
    /\ sessions[s].pc = "executed"
    /\ participants' = {r \in participants : r.id # sessions[s].row.id} \cup {sessions[s].row}
    /\ sessions' = [sessions EXCEPT
            ![s] = [pc |-> "done", params |-> sessions[s].params,
                    body |-> row_to_participant(sessions[s].row)]]
    /\ UNCHANGED <<experiments, resp>>

\* except SQLAlchemyError: await session.rollback(); raise
AssignRollback(s) ==
    /\ sessions[s].pc \in {"begun", "executed"}
    /\ sessions' = [sessions EXCEPT ![s] = [pc |-> "failed", params |-> sessions[s].params]]
    /\ UNCHANGED <<experiments, participants, resp>>

\* ============================================================ conversions
\* POST /{experiment_id}/conversions: record_conversion (route and service).
\* The UPDATE waits while another transaction holds the row.
RecordConversion(req) ==
    /\ \/ /\ ~uuid_UUID_ok(req.participant_id)
          /\ resp' = [op |-> "convert", outcome |-> "ValueError",
                      req |-> [participant_id |-> req.participant_id],
                      before |-> None, body |-> None]
          /\ UNCHANGED participants
       \/ /\ uuid_UUID_ok(req.participant_id)
          /\ LET pid == uuid_UUID(req.participant_id)
                 hit == {r \in participants : r.id = pid}
                 rows == conversion_rows(participants, pid, req)
             IN  /\ \A r \in hit : \A s \in DOMAIN sessions : ~Locked(s, r)
                 /\ participants' = rows
                 /\ IF hit = {}
                    THEN \* result.one() after the commit
                         resp' = [op |-> "convert", outcome |-> "NoResultFound",
                                  req |-> [participant_id |-> req.participant_id],
                                  before |-> None, body |-> None]
                    ELSE LET record == row_to_participant(CHOOSE r \in rows : r.id = pid)
                         IN  resp' = [op |-> "convert",
                                      outcome |-> IF record.experiment_id # req.experiment_id
                                                  THEN "400" ELSE "ok",
                                      req |-> req,
                                      before |-> Some(CHOOSE r \in hit : TRUE),
                                      body |-> IF record.experiment_id # req.experiment_id
                                               THEN None ELSE Some(record)]
    /\ UNCHANGED <<experiments, sessions>>

\* ================================================================ detail
\* bug: the WHERE experiment_id = :experiment_id clause is missing
participants_query_all_experiments(rows, experiment_id) ==
    LET group(n) == {r \in rows : r.variant_name = n}
        converted(n) == {r \in group(n) : r.converted_at # None}
    IN  { [variant_name |-> n,
           participants |-> Cardinality(group(n)),
           conversions |-> Cardinality(converted(n)),
           total_value |-> SumSet({<<r.id, r.conversion_value[1]>> :
                                     r \in {c \in converted(n) : c.conversion_value # None}})]
          : n \in {r.variant_name : r \in rows} }

\* participants_query: GROUP BY variant_name over the rows of the experiment
participants_query(rows, experiment_id) ==
    LET mine == {r \in rows : r.experiment_id = experiment_id}
        group(n) == {r \in mine : r.variant_name = n}
        converted(n) == {r \in group(n) : r.converted_at # None}
    IN  { [variant_name |-> n,
           participants |-> Cardinality(group(n)),
           conversions |-> Cardinality(converted(n)),
           total_value |-> SumSet({<<r.id, r.conversion_value[1]>> :
                                     r \in {c \in converted(n) : c.conversion_value # None}})]
          : n \in {r.variant_name : r \in mine} }

\* a quotient a / b as the pair it is computed from
Ratio(a, b) == [num |-> a, den |-> b]
ZeroRatio == Ratio(0, 1)

\* bug: the guard on participants is missing
conversion_rate_unguarded(agg) == Ratio(agg.conversions, agg.participants)

\* _VariantAggregate.conversion_rate
conversion_rate(agg) ==
    IF agg.participants # 0 THEN Ratio(agg.conversions, agg.participants) ELSE ZeroRatio

\* _VariantAggregate.average_value
average_value(agg) ==
    IF agg.conversions # 0 THEN Ratio(agg.total_value, agg.conversions) ELSE ZeroRatio

NoLift == [kind |-> "None", num |-> 0, den |-> 1]
InfLift == [kind |-> "inf", num |-> 1, den |-> 0]

\* bug: the difference of the rates is not divided by the baseline rate
variant_lift_absolute(result, first) ==
    LET rate == result.conversion_rate
        baseline_rate == first.conversion_rate
    IN  IF result.name = first.name THEN NoLift
        ELSE IF baseline_rate.num > 0
             THEN [kind |-> "float",
                   num |-> rate.num * baseline_rate.den - baseline_rate.num * rate.den,
                   den |-> rate.den * baseline_rate.den]
        ELSE IF rate.num > 0 THEN InfLift
        ELSE [kind |-> "float", num |-> 0, den |-> 1]

\* the lift loop of _build_variant_results, for one result
variant_lift(result, first) ==
    LET rate == result.conversion_rate
        baseline_rate == first.conversion_rate
    IN  IF result.name = first.name THEN NoLift
        ELSE IF baseline_rate.num > 0
             THEN [kind |-> "float",
                   num |-> rate.num * baseline_rate.den - baseline_rate.num * rate.den,
                   den |-> rate.den * baseline_rate.num]
        ELSE IF rate.num > 0 THEN InfLift
        ELSE [kind |-> "float", num |-> 0, den |-> 1]

\* _build_variant_results
build_variant_results(variants, participant_rows) ==
    LET aggregates(n) ==
            IF \E row \in participant_rows : row.variant_name = n
            THEN LET row == CHOOSE row \in participant_rows : row.variant_name = n
                 IN  [name |-> n, participants |-> row.participants,
                      conversions |-> row.conversions, total_value |-> row.total_value]
            ELSE [name |-> n, participants |-> 0, conversions |-> 0, total_value |-> 0]
        ordered_results ==
            [i \in 1..Len(variants) |->
                LET aggregate == aggregates(variants[i].name)
                IN  [name |-> aggregate.name,
                     participants |-> aggregate.participants,
                     conversions |-> aggregate.conversions,
                     conversion_rate |-> conversion_rate(aggregate),
                     total_conversion_value |-> aggregate.total_value,
                     avg_conversion_value |-> average_value(aggregate)]]
    IN  [i \in 1..Len(variants) |->
            [name |-> ordered_results[i].name,
             participants |-> ordered_results[i].participants,
             conversions |-> ordered_results[i].conversions,
             conversion_rate |-> ordered_results[i].conversion_rate,
             total_conversion_value |-> ordered_results[i].total_conversion_value,
             avg_conversion_value |-> ordered_results[i].avg_conversion_value,
             lift |-> variant_lift(ordered_results[i], ordered_results[1])]]

\* ------------------------------------------------------------ statistics
\* Probabilities are held in units of 1 / ProbScale.
ProbScale == 100000

\* _SIGNIFICANCE_THRESHOLD = 0.95
SIGNIFICANCE_THRESHOLD == 95000

RECURSIVE Gcd(_, _)
Gcd(a, b) == IF b = 0 THEN a ELSE Gcd(b, a % b)

\* the quotient a / b in lowest terms, b > 0
Reduced(a, b) ==
    LET g == Gcd(Abs(a), b) IN Ratio(a \div g, b \div g)

\* the product of two quotients in lowest terms
RatioTimes(x, y) ==
    LET g1 == Gcd(Abs(x.num), y.den)
        g2 == Gcd(Abs(y.num), x.den)
    IN  IF x.num = 0 \/ y.num = 0 THEN ZeroRatio
        ELSE Ratio((x.num \div g1) * (y.num \div g2), (x.den \div g2) * (y.den \div g1))

\* math.erf through the normal distribution's table: <<1000 * z^2, ProbScale * Phi(z)>>,
\* Phi rounded down.  Phi(0) is 1/2 exactly and Phi is above it for every z > 0;
\* from z = 8.3 on the float 0.5 * (1 + erf(z / sqrt(2))) is 1.0.
NormalTable ==
    << <<0, 50001>>, <<16, 55032>>, <<65, 60061>>, <<149, 65025>>, <<275, 70000>>,
       <<455, 75001>>, <<709, 80011>>, <<1075, 85009>>, <<1643, 90004>>,
       <<2706, 95001>>, <<3842, 97500>>, <<5412, 99000>>, <<6635, 99500>>,
       <<10828, 99950>>, <<15137, 99995>>, <<69000, 100000>> >>

\* bug: the table is read for z = 0 too, where it holds the value just above 1/2
normal_cdf_no_zero(z2) ==
    LET whole == z2.num \div z2.den
        thousandths == IF whole >= 1000 THEN 1000000
                       ELSE 1000 * whole + (1000 * (z2.num % z2.den)) \div z2.den
        reached == {k \in 1..Len(NormalTable) : NormalTable[k][1] <= thousandths}
        last == CHOOSE k \in reached : \A j \in reached : j <= k
    IN  NormalTable[last][2]

\* _normal_cdf(abs(z_score)), given z_score squared as a quotient
normal_cdf(z2) ==
    IF z2.num = 0 THEN ProbScale \div 2
    ELSE LET whole == z2.num \div z2.den
             \* 1000 * z^2 rounded down; beyond the table's last row it is all one
             thousandths == IF whole >= 1000 THEN 1000000
                            ELSE 1000 * whole + (1000 * (z2.num % z2.den)) \div z2.den
             reached == {k \in 1..Len(NormalTable) : NormalTable[k][1] <= thousandths}
             last == CHOOSE k \in reached : \A j \in reached : j <= k
         IN  NormalTable[last][2]

Min(a, b) == IF a <= b THEN a ELSE b
Max(a, b) == IF a >= b THEN a ELSE b

\* pooled = (conversions_a + conversions_b) / (participants_a + participants_b)
pooled_proportion(participants_a, conversions_a, participants_b, conversions_b) ==
    Reduced(conversions_a + conversions_b, participants_a + participants_b)

\* bug: the variant's rate comes first, p_b - p_a
rate_difference_variant_first(participants_a, conversions_a, participants_b, conversions_b) ==
    Reduced(conversions_b * participants_a - conversions_a * participants_b,
            participants_a * participants_b)

\* p_a - p_b, the numerator of z_score
rate_difference(participants_a, conversions_a, participants_b, conversions_b) ==
    Reduced(conversions_a * participants_b - conversions_b * participants_a,
            participants_a * participants_b)

\* the sign of z_score = (p_a - p_b) / std_error, std_error being positive
z_score_sign(participants_a, conversions_a, participants_b, conversions_b) ==
    LET difference == rate_difference(participants_a, conversions_a,
                                      participants_b, conversions_b)
    IN  IF difference.num > 0 THEN 1 ELSE IF difference.num < 0 THEN -1 ELSE 0

\* bug: the standard error is taken for 0 whatever the counts
z_test_p_value_no_variance(participants_a, conversions_a, participants_b, conversions_b) ==
    None

\* _proportion_z_test from std_error on: None, or Some(p_value)
z_test_p_value(participants_a, conversions_a, participants_b, conversions_b) ==
    LET difference == rate_difference(participants_a, conversions_a,
                                      participants_b, conversions_b)
        pooled == pooled_proportion(participants_a, conversions_a, participants_b, conversions_b)
        variance ==
            RatioTimes(RatioTimes(pooled, Ratio(pooled.den - pooled.num, pooled.den)),
                       Reduced(participants_a + participants_b,
                               participants_a * participants_b))
    IN  IF variance.num = 0 THEN None
        ELSE LET magnitude == Ratio(Abs(difference.num), difference.den)
                 z_score_squared ==
                     RatioTimes(RatioTimes(magnitude, magnitude),
                                Ratio(variance.den, variance.num))
                 p_value == 2 * (ProbScale - normal_cdf(z_score_squared))
             IN  Some(Max(Min(p_value, ProbScale), 0))

\* bug: a pooled proportion of 0 or 1 is read as "no difference" (p_value 1)
proportion_z_test_degenerate_is_one(participants_a, conversions_a, participants_b, conversions_b) ==
    IF participants_a = 0 \/ participants_b = 0 THEN None
    ELSE LET pooled == pooled_proportion(participants_a, conversions_a,
                                         participants_b, conversions_b)
         IN  IF pooled.num = 0 \/ pooled.num = pooled.den THEN Some(ProbScale)
             ELSE z_test_p_value(participants_a, conversions_a, participants_b, conversions_b)

\* _proportion_z_test: None, or Some(p_value)
proportion_z_test(participants_a, conversions_a, participants_b, conversions_b) ==
    IF participants_a = 0 \/ participants_b = 0 THEN None
    ELSE LET pooled == pooled_proportion(participants_a, conversions_a,
                                         participants_b, conversions_b)
         IN  IF pooled.num = 0 \/ pooled.num = pooled.den THEN None
             ELSE z_test_p_value(participants_a, conversions_a, participants_b, conversions_b)

\* bug: the threshold is applied to p_value
comparison_threshold_on_p_value(baseline, variant) ==
    LET p_value == proportion_z_test(baseline.participants, baseline.conversions,
                                     variant.participants, variant.conversions)
        confidence == IF p_value # None THEN Some(ProbScale - p_value[1]) ELSE None
    IN  [baseline |-> baseline.name,
         variant |-> variant.name,
         lift |-> variant.lift,
         p_value |-> p_value,
         confidence |-> confidence,
         is_significant |-> p_value # None /\ p_value[1] >= SIGNIFICANCE_THRESHOLD]

\* the body of the loop of _build_comparisons
comparison(baseline, variant) ==
    LET p_value == proportion_z_test(baseline.participants, baseline.conversions,
                                     variant.participants, variant.conversions)
        confidence == IF p_value # None THEN Some(ProbScale - p_value[1]) ELSE None
        is_significant ==
            /\ confidence # None
            /\ confidence[1] # 0
            /\ confidence[1] >= SIGNIFICANCE_THRESHOLD
    IN  [baseline |-> baseline.name,
         variant |-> variant.name,
         lift |-> variant.lift,
         p_value |-> p_value,
         confidence |-> confidence,
         is_significant |-> is_significant]

\* bug: the baseline is left out by name, not by position
build_comparisons_by_name(results) ==
    IF Len(results) = 0 THEN <<>>
    ELSE LET others == SelectSeq(results, LAMBDA r : r.name # results[1].name)
         IN  [i \in 1..Len(others) |-> comparison(results[1], others[i])]

\* _build_comparisons
build_comparisons(results) ==
    IF Len(results) = 0 THEN <<>>
    ELSE [i \in 1..(Len(results) - 1) |-> comparison(results[1], results[i + 1])]

\* cmp.lift and cmp.lift > 0
lift_positive(lift) ==
    \/ lift.kind = "inf"
    \/ lift.kind = "float" /\ lift.num > 0

\* bug: the sign of the lift is not looked at
suggested_winner_any_significant(comparisons) ==
    LET winners == {i \in 1..Len(comparisons) : comparisons[i].is_significant}
    IN  IF winners = {} THEN None
        ELSE Some(comparisons[CHOOSE i \in winners : \A j \in winners : i <= j].variant)

\* suggested = next((cmp.variant for cmp in comparisons if ...), None)
suggested_winner(comparisons) ==
    LET winners == {i \in 1..Len(comparisons) :
                       comparisons[i].is_significant /\ lift_positive(comparisons[i].lift)}
    IN  IF winners = {} THEN None
        ELSE Some(comparisons[CHOOSE i \in winners : \A j \in winners : i <= j].variant)

\* bug: the maximum is returned as it is, 0.0 included
overall_confidence_keeps_zero(comparisons) ==
    LET values == {IF comparisons[i].confidence # None THEN comparisons[i].confidence[1] ELSE 0
                     : i \in 1..Len(comparisons)}
    IN  IF values = {} THEN None
        ELSE Some(CHOOSE v \in values : \A w \in values : w <= v)

\* max((cmp.confidence or 0.0 for cmp in comparisons), default=None), 0.0 made None
overall_confidence(comparisons) ==
    LET values == {IF comparisons[i].confidence # None THEN comparisons[i].confidence[1] ELSE 0
                     : i \in 1..Len(comparisons)}
        largest == CHOOSE v \in values : \A w \in values : w <= v
    IN  IF values = {} THEN None
        ELSE IF largest = 0 THEN None
        ELSE Some(largest)

\* get_experiment_detail from the fetched rows on: the ExperimentResults
experiment_results(variants, participant_rows) ==
    LET variant_results == build_variant_results(variants, participant_rows)
        comparisons == build_comparisons(variant_results)
    IN  [baseline_variant |-> variant_results[1].name,
         variants |-> variant_results,
         comparisons |-> comparisons,
         suggested_winner |-> suggested_winner(comparisons),
         overall_confidence |-> overall_confidence(comparisons)]

\* experiment_query: WHERE tenant_id = :tenant_id AND id = :experiment_id
experiment_query(tenant_id, experiment_id) ==
    {i \in 1..Len(experiments) :
        experiments[i].tenant_id = tenant_id /\ experiments[i].id = experiment_id}

\* ABTestingService.get_experiment_detail, once both ids have parsed
get_experiment_detail(tenant_id, experiment_id) ==
    LET found == experiment_query(tenant_id, experiment_id)
    IN  IF found = {} THEN None
        ELSE LET experiment == row_to_experiment(experiments[CHOOSE i \in found : TRUE])
             IN  Some([experiment |-> experiment,
                       results |-> experiment_results(
                                       experiment.variants,
                                       participants_query(participants, experiment_id))])

\* GET /{experiment_id}?tenant_id=...: the route and the service
GetExperimentDetail(tenant_id, experiment_id) ==
    /\ IF ~(uuid_UUID_ok(tenant_id) /\ uuid_UUID_ok(experiment_id))
           THEN resp' = [op |-> "detail", outcome |-> "ValueError",
                         req |-> [tenant_id |-> tenant_id, experiment_id |-> experiment_id],
                         before |-> None, body |-> None]
           ELSE LET detail == get_experiment_detail(uuid_UUID(tenant_id), uuid_UUID(experiment_id))
                IN  resp' = [op |-> "detail",
                             outcome |-> IF detail = None THEN "404" ELSE "ok",
                             req |-> [tenant_id |-> tenant_id, experiment_id |-> experiment_id],
                             before |-> None,
                             body |-> detail]
    /\ UNCHANGED <<experiments, participants, sessions>>

\* ================================================================== list
\* results_payload.get("winner") if isinstance(results_payload, dict) else None
winner(results) ==
    IF results = None THEN None
    ELSE IF \E kv \in results[1] : kv[1] = "winner"
         THEN Some((CHOOSE kv \in results[1] : kv[1] = "winner")[2])
    ELSE None

\* bug: the winner is recomputed from the assignment rows
summary_recomputes_winner(row) ==
    [id |-> str_uuid(row.id),
     status |-> row.status,
     winner |-> experiment_results(row.variants,
                                   participants_query(participants, row.id)).suggested_winner,
     conversions |-> Cardinality({p \in participants :
                                    p.experiment_id = row.id /\ p.converted_at # None}),
     created_at |-> row.created_at]

\* bug: COUNT(p.id), every assignment counts as a conversion
summary_counts_rows(row) ==
    [id |-> str_uuid(row.id),
     status |-> row.status,
     winner |-> winner(row.results),
     conversions |-> Cardinality({p \in participants : p.experiment_id = row.id}),
     created_at |-> row.created_at]

\* one row of the list query turned into an ExperimentSummary: conversions is
\* the SUM over the LEFT JOIN of the rows with converted_at set
summary(row) ==
    [id |-> str_uuid(row.id),
     status |-> row.status,
     winner |-> winner(row.results),
     conversions |-> Cardinality({p \in participants :
                                    p.experiment_id = row.id /\ p.converted_at # None}),
     created_at |-> row.created_at]

\* bug: the WHERE e.tenant_id = :tenant_id clause is missing
list_experiments_all_tenants(tenant_id) ==
    LET matching == 1..Len(experiments)
        n == Cardinality(matching)
        orders == {o \in [1..n -> matching] :
                      /\ \A j, k \in 1..n : j # k => o[j] # o[k]
                      /\ \A j, k \in 1..n :
                            j < k => experiments[o[j]].created_at >= experiments[o[k]].created_at}
    IN  {[k \in 1..n |-> summary(experiments[o[k]])] : o \in orders}

\* list_experiments: the lists of summaries the query may yield, WHERE
\* e.tenant_id = :tenant_id ORDER BY e.created_at DESC (rows of one created_at
\* come in any order)
list_experiments(tenant_id) ==
    LET matching == {i \in 1..Len(experiments) : experiments[i].tenant_id = tenant_id}
        n == Cardinality(matching)
        orders == {o \in [1..n -> matching] :
                      /\ \A j, k \in 1..n : j # k => o[j] # o[k]
                      /\ \A j, k \in 1..n :
                            j < k => experiments[o[j]].created_at >= experiments[o[k]].created_at}
    IN  {[k \in 1..n |-> summary(experiments[o[k]])] : o \in orders}

\* GET /api/analytics/experiments?tenant_id=...: the route and the service
ListExperiments(tenant_id) ==
    /\ IF ~uuid_UUID_ok(tenant_id)
       THEN resp' = [op |-> "list", outcome |-> "ValueError",
                     req |-> [tenant_id |-> tenant_id], before |-> None, body |-> None]
       ELSE \E summaries \in list_experiments(uuid_UUID(tenant_id)) :
                resp' = [op |-> "list", outcome |-> "ok",
                         req |-> [tenant_id |-> tenant_id], before |-> None,
                         body |-> Some(summaries)]
    /\ UNCHANGED <<experiments, participants, sessions>>

\* ------------------------------------------------ a catalog already in use
\* Stores that earlier requests have left: the experiments as create_experiment
\* inserts them, the rows as record_assignment and record_conversion write them.
CatalogDefinition(t, status) ==
    [tenant_id |-> <<"canon", t>>, variants |-> <<V("A", 50), V("B", 50)>>,
     n_metrics |-> 1, status |-> status]

CatalogDefinitions ==
    {CatalogDefinition(t, status) : t \in {1, 2}, status \in {"draft", "archived"}}

CatalogExperiments ==
    { <<>>,
      \* two experiments of one tenant, the later one archived, and one of another tenant
      << experiment_row(CatalogDefinition(1, "draft"), 1, 1),
         experiment_row(CatalogDefinition(1, "archived"), 2, 2),
         experiment_row(CatalogDefinition(2, "draft"), 3, 2) >>,
      \* two experiments created at the same instant
      << experiment_row(CatalogDefinition(1, "draft"), 1, 1),
         experiment_row(CatalogDefinition(1, "draft"), 2, 1) >> }

\* record_assignment of a new identity, as a row of the table
CatalogAssigned(rows, variant_name, identity, id) ==
    upsert_rows(rows,
                assignment_params(
                    to_model([variant_name |-> variant_name, identity |-> identity,
                              assigned_at |-> Some(1)], <<"canon", 2>>, 1),
                    id))

CatalogParticipants ==
    { {},
      \* experiment 2 after four assignments and two conversions: nobody of the
      \* two of A converted, both of B did
      conversion_rows(
        conversion_rows(
          CatalogAssigned(
            CatalogAssigned(
              CatalogAssigned(
                CatalogAssigned({}, "A",
                    [user_id |-> Some(<<"canon", 1>>), customer_id |-> None, session_id |-> None], 1),
                "A", [user_id |-> None, customer_id |-> None, session_id |-> Some("s1")], 2),
              "B", [user_id |-> Some(<<"canon", 2>>), customer_id |-> None, session_id |-> None], 3),
            "B", [user_id |-> None, customer_id |-> None, session_id |-> Some("s2")], 4),
          3, [converted_at |-> 1, conversion_value |-> None]),
        4, [converted_at |-> 2, conversion_value |-> Some(5)]) }

CatalogAssignmentRequests ==
    [experiment_id : {<<"canon", 2>>},
     variant_name : {"A", "B", "Z"},
     identity : { [user_id |-> Some(<<"canon", 1>>), customer_id |-> None, session_id |-> None],
                  [user_id |-> None, customer_id |-> None, session_id |-> Some("s1")] },
     assigned_at : {Some(1)}]

CatalogConversionRequests ==
    { [experiment_id |-> e, participant_id |-> <<"canon", pid>>,
       converted_at |-> c.converted_at, conversion_value |-> c.conversion_value]
      : e \in {<<"canon", 2>>}, pid \in ParticipantIds, c \in ConversionPayloads }

CatalogTenantStrings == {<<"canon", 1>>, <<"canon", 2>>, BadUuidString}

\* --------------------------------------------- the detail of fetched rows
\* (participants, conversions, total_value) of one GROUP BY row: conversions
\* never exceed participants
StatsCounts ==
    { <<0, 0, 0>>, <<100, 0, 0>>, <<100, 100, 500>>, <<200, 10, 100>>,
      <<200, 20, 400>>, <<190, 30, 750>>, <<100, 10, 50>>, <<2, 0, 0>>, <<2, 1, 0>>,
      <<2, 2, 5>> }

\* the rows tried with three variants
StatsCountsOfThree ==
    { <<190, 30, 750>>, <<200, 10, 100>>, <<100, 100, 500>>, <<2, 2, 5>> }

\* variant lists that create accepts
StatsVariantLists ==
    { <<V("A", 50), V("B", 50)>>,
      <<V("A", 50), V("A", 50)>>,
      <<V("A", 25), V("B", 25), V("C", 50)>> }

\* the results of participants_query: at most one row per variant name
StatsRows(variants) ==
    LET names == {variants[i].name : i \in 1..Len(variants)}
        counts == IF Len(variants) = 2 THEN StatsCounts ELSE StatsCountsOfThree
        choices == [names -> {None} \cup {Some(c) : c \in counts}]
    IN  { { [variant_name |-> n, participants |-> f[n][1][1],
             conversions |-> f[n][1][2], total_value |-> f[n][1][3]]
            : n \in {m \in names : f[m] # None} }
          : f \in choices }

\* get_experiment_detail over a session that returns these rows, as the
\* service's test runs it
ComputeDetail(variants, participant_rows) ==
    /\ resp' = [op |-> "results", outcome |-> "ok",
                req |-> [variants |-> variants, participant_rows |-> participant_rows],
                before |-> None,
                body |-> Some(experiment_results(variants, participant_rows))]
    /\ UNCHANGED <<experiments, participants, sessions>>

\* ========================================================= specification
SessionIds == {1, 2}

Init ==
    /\ experiments = <<>>
    /\ participants = {}
    /\ resp = [op |-> "none", outcome |-> "none", req |-> None, before |-> None, body |-> None]
    /\ sessions = [s \in SessionIds |-> [pc |-> "idle"]]

\* the whole engine, on the smaller inputs
Next ==
    \/ \E d \in EngineDefinitions : CreateExperiment(d)
    \/ \E req \in EngineAssignmentRequests : AssignParticipant(req)
    \/ AssignParticipantFails
    \/ \E req \in EngineConversionRequests : RecordConversion(req)
    \/ \E t \in EngineTenantStrings, e \in EngineTenantStrings : GetExperimentDetail(t, e)

Spec == Init /\ [][Next]_vars

\* the assignment tracker and the conversion recorder, on all their inputs
NextTracker ==
    \/ \E req \in AssignmentRequests : AssignParticipant(req)
    \/ AssignParticipantFails
    \/ \E req \in ConversionRequests : RecordConversion(req)

SpecTracker == Init /\ [][NextTracker]_vars

\* the experiment registry, on all its inputs
NextRegistry ==
    \/ \E d \in Definitions : CreateExperiment(d)
    \/ \E t \in UuidStrings, e \in UuidStrings : GetExperimentDetail(t, e)

SpecRegistry == Init /\ [][NextRegistry]_vars

\* two assignment requests of one experiment in flight at once, and conversions
ConcurrentAssignmentRequests ==
    {req \in AssignmentRequests :
        req.experiment_id = <<"canon", 1>> /\ req.assigned_at # None}

NextConcurrent ==
    \/ \E s \in SessionIds, req \in ConcurrentAssignmentRequests : AssignBegin(s, req)
    \/ \E s \in SessionIds : AssignExecute(s)
    \/ \E s \in SessionIds : AssignCommit(s)
    \/ \E s \in SessionIds : AssignRollback(s)
    \/ \E req \in EngineConversionRequests : RecordConversion(req)

SpecConcurrent == Init /\ [][NextConcurrent]_vars

\* every operation of the core, on a catalog that is already in use
InitCatalog ==
    /\ experiments \in CatalogExperiments
    /\ participants \in CatalogParticipants
    /\ resp = [op |-> "none", outcome |-> "none", req |-> None, before |-> None, body |-> None]
    /\ sessions = [s \in SessionIds |-> [pc |-> "idle"]]

NextCatalog ==
    \/ \E d \in CatalogDefinitions : CreateExperiment(d)
    \/ \E req \in CatalogAssignmentRequests : AssignParticipant(req)
    \/ \E req \in CatalogConversionRequests : RecordConversion(req)
    \/ \E t \in CatalogTenantStrings, e \in {<<"canon", 1>>, <<"canon", 2>>} :
          GetExperimentDetail(t, e)
    \/ \E t \in CatalogTenantStrings : ListExperiments(t)

SpecCatalog == InitCatalog /\ [][NextCatalog]_vars

\* the statistics of a detail, over rows the store may return
NextStats ==
    \E variants \in StatsVariantLists : \E participant_rows \in StatsRows(variants) :
        ComputeDetail(variants, participant_rows)

SpecStats == Init /\ [][NextStats]_vars

\* ================================================================ claims
\* the rows of the identity an assignment names
RowsOf(a) == {r \in participants : unique_participant(r, assignment_params(a, 0))}

\* C1: the store never holds two assignment rows of one (experiment_id,
\* identity), whatever assignments and conversions have run; so an assignment
\* for an identity that has a row adds none.
C1_OneRowPerIdentity ==
    \A r1, r2 \in participants : unique_participant(r1, r2) => r1 = r2

\* a repeat assignment has just run in a store that holds a second row and a conversion
C1_Witness ==
    /\ resp.op = "assign" /\ resp.outcome = "ok" /\ resp.before # None
    /\ Cardinality(participants) = 2
    /\ \E r \in participants : r.converted_at # None

\* C2: after an assignment for an identity that already had a row, exactly one
\* row of that identity is stored, its variant_name and assigned_at are those
\* of this (the second) request, and the call returned that row.
C2_SecondAssignmentWins ==
    (resp.op = "assign" /\ resp.outcome = "ok" /\ resp.before # None) =>
        /\ Cardinality(RowsOf(resp.req)) = 1
        /\ \A r \in RowsOf(resp.req) :
              /\ r.variant_name = resp.req.variant_name
              /\ r.assigned_at = resp.req.assigned_at
              /\ resp.body = Some(row_to_participant(r))

\* the second request named another variant and an earlier assigned_at
C2_Witness ==
    /\ resp.op = "assign" /\ resp.outcome = "ok" /\ resp.before # None
    /\ resp.before[1].variant_name # resp.req.variant_name
    /\ resp.req.assigned_at < resp.before[1].assigned_at

\* C3: re-assigning an identity whose row is converted leaves the row's
\* converted_at and conversion_value as they were, and the returned row
\* carries them.
C3_ConversionSurvivesReassignment ==
    (resp.op = "assign" /\ resp.outcome = "ok" /\ resp.before # None
        /\ resp.before[1].converted_at # None) =>
        /\ RowsOf(resp.req) # {}
        /\ \A r \in RowsOf(resp.req) :
              /\ r.converted_at = resp.before[1].converted_at
              /\ r.conversion_value = resp.before[1].conversion_value
        /\ resp.body[1].converted_at = resp.before[1].converted_at
        /\ resp.body[1].conversion_value = resp.before[1].conversion_value

\* a converted row with a value was re-assigned to another variant
C3_Witness ==
    /\ resp.op = "assign" /\ resp.outcome = "ok" /\ resp.before # None
    /\ resp.before[1].conversion_value = Some(5)
    /\ resp.before[1].variant_name # resp.req.variant_name

\* the sessions whose assignment has been answered
Answered == {s \in SessionIds : sessions[s].pc = "done"}

\* C4: when two assignment requests of one identity have both been answered,
\* however their steps interleaved, one row of that identity is stored and its
\* variant_name and assigned_at are both those of one of the two requests.
C4_ConcurrentAssignmentsSerialize ==
    \A s, t \in Answered :
        (s # t /\ unique_participant(sessions[s].params, sessions[t].params)) =>
            LET rows == {r \in participants : unique_participant(r, sessions[s].params)}
            IN  /\ Cardinality(rows) = 1
                /\ \A r \in rows : \E u \in {s, t} :
                      /\ r.variant_name = sessions[u].params.variant_name
                      /\ r.assigned_at = sessions[u].params.assigned_at

\* both requests of one identity are answered; they differ in variant and assigned_at
C4_Witness ==
    \E s, t \in Answered :
        /\ s # t
        /\ unique_participant(sessions[s].params, sessions[t].params)
        /\ sessions[s].params.variant_name # sessions[t].params.variant_name
        /\ sessions[s].params.assigned_at # sessions[t].params.assigned_at

\* no stored assignment has the id this string names
NoStoredAssignment(participant_id) ==
    \A r \in participants :
        ~(uuid_UUID_ok(participant_id) /\ uuid_UUID(participant_id) = r.id)

\* C5: a conversion for a participant_id that matches no stored assignment
\* fails with the not-found error.
C5_UnknownParticipantIsNotFound ==
    (resp.op = "convert" /\ NoStoredAssignment(resp.req.participant_id)) =>
        resp.outcome = "NoResultFound"

\* C6: a conversion recorded for a row, converted before or not, leaves the
\* number of rows as it was and every other row untouched; the row keeps its
\* id, identity, variant_name and assigned_at and takes the converted_at and
\* conversion_value of this call; the same update once more changes nothing.
C6_ConversionOverwritesInPlace ==
    [][resp'.op = "convert" =>
        /\ Cardinality(participants') = Cardinality(participants)
        /\ resp'.outcome \in {"ok", "400"} =>
            LET old == resp'.before[1]
                new == {r \in participants' : r.id = old.id}
            IN  /\ old \in participants
                /\ new = {[old EXCEPT !.converted_at = Some(resp'.req.converted_at),
                                      !.conversion_value = resp'.req.conversion_value]}
                /\ participants' \ new = participants \ {old}
                /\ conversion_rows(participants', old.id, resp'.req) = participants'
    ]_vars

\* a second conversion, with other values, was recorded for a converted row
C6_Witness ==
    /\ resp.op = "convert" /\ resp.outcome = "ok"
    /\ resp.before[1].converted_at # None
    /\ resp.before[1].converted_at # Some(resp.req.converted_at)
    /\ resp.before[1].conversion_value # resp.req.conversion_value

\* the request carries none of the three identifiers
NoIdentifier(a) == a.user_id = None /\ a.customer_id = None /\ a.session_id = None

\* C7: an assignment with none of user_id, customer_id, session_id is refused
\* with a validation error and the store stays as it was; every stored row
\* has at least one of the three.
C7_IdentityRequired ==
    [][/\ \A r \in participants' : ~NoIdentifier(r)
       /\ (resp'.op = "assign" /\ resp'.outcome # "SQLAlchemyError") =>
            /\ NoIdentifier(resp'.req) => resp'.outcome = "ValidationError"
            /\ resp'.outcome = "ValidationError" => participants' = participants
    ]_vars

\* an assignment without identifiers was refused by a store that holds rows
C7_Witness ==
    /\ resp.op = "assign" /\ resp.outcome = "ValidationError"
    /\ NoIdentifier(resp.req)
    /\ participants # {}

AllocationSum(variants) ==
    SumSeq([i \in 1..Len(variants) |-> variants[i].allocation], 1)

\* at least 2 variants, at least 1 success metric, allocations summing to 0.99..1.01
MeetsCreateConstraints(d) ==
    /\ Len(d.variants) >= 2
    /\ d.n_metrics >= 1
    /\ AllocationSum(d.variants) \in 99..101

\* C8: every stored experiment has at least 2 variants, at least 1 success
\* metric and an allocation sum within [0.99, 1.01]; a definition that breaks
\* one of these is refused with a validation error, and a refused create
\* stores nothing.
C8_OnlyValidExperimentsStored ==
    [][/\ \A i \in 1..Len(experiments') : MeetsCreateConstraints(experiments'[i])
       /\ resp'.op = "create" =>
            /\ ~MeetsCreateConstraints(resp'.req) => resp'.outcome = "ValidationError"
            /\ resp'.outcome # "ok" => experiments' = experiments
    ]_vars

\* a definition whose allocations sum to 1.02 was refused after one was stored
C8_Witness ==
    /\ resp.op = "create" /\ resp.outcome = "ValidationError"
    /\ Len(resp.req.variants) = 2 /\ resp.req.n_metrics = 1
    /\ AllocationSum(resp.req.variants) = 102
    /\ Len(experiments) = 1

\* no stored experiment has this id under this tenant
NoSuchExperiment(req) ==
    \A i \in 1..Len(experiments) :
        ~(/\ uuid_UUID_ok(req.experiment_id) /\ uuid_UUID(req.experiment_id) = experiments[i].id
          /\ uuid_UUID_ok(req.tenant_id) /\ uuid_UUID(req.tenant_id) = experiments[i].tenant_id)

\* C9: the detail of an experiment id that does not exist, or exists under
\* another tenant, is answered 404; an experiment that is returned is the
\* requested tenant's.
C9_UnknownOrForeignIsNotFound ==
    resp.op = "detail" =>
        /\ NoSuchExperiment(resp.req) => resp.outcome = "404"
        /\ resp.outcome = "ok" =>
              resp.body[1].experiment.tenant_id = str_uuid(uuid_UUID(resp.req.tenant_id))

ValueOf(r) == IF r.conversion_value = None THEN 0 ELSE r.conversion_value[1]

RECURSIVE TotalValue(_)
TotalValue(rows) ==
    IF rows = {} THEN 0
    ELSE LET r == CHOOSE x \in rows : TRUE IN ValueOf(r) + TotalValue(rows \ {r})

\* the scenario of the service test: 200 Control rows, 20 converted for 400 in
\* all; 190 VariantB rows, 30 converted for 750 in all
ScenarioResults ==
    build_variant_results(
        <<V("Control", 50), V("VariantB", 50)>>,
        { [variant_name |-> "Control", participants |-> 200, conversions |-> 20, total_value |-> 400],
          [variant_name |-> "VariantB", participants |-> 190, conversions |-> 30, total_value |-> 750] })

\* C10: a detail reports, for every defined variant, the number of stored rows
\* of the experiment with that variant_name, the number of those that are
\* converted and the sum of their conversion values (a conversion without a
\* value adds 0), with the rate and the average taken from these; in the
\* scenario VariantB has rate 30/190 and average value 25.
C10_DetailCountsStoredRows ==
    /\ (resp.op = "detail" /\ resp.outcome = "ok") =>
        LET detail == resp.body[1]
            id == uuid_UUID(detail.experiment.id)
            defined == detail.experiment.variants
            results == detail.results.variants
        IN  /\ Len(results) = Len(defined)
            /\ \A i \in 1..Len(defined) :
                LET rows == {r \in participants :
                                r.experiment_id = id /\ r.variant_name = defined[i].name}
                    converted == {r \in rows : r.converted_at # None}
                IN  /\ results[i].name = defined[i].name
                    /\ results[i].participants = Cardinality(rows)
                    /\ results[i].conversions = Cardinality(converted)
                    /\ results[i].total_conversion_value = TotalValue(converted)
                    /\ rows # {} =>
                          results[i].conversion_rate = Ratio(Cardinality(converted), Cardinality(rows))
                    /\ converted # {} =>
                          results[i].avg_conversion_value = Ratio(TotalValue(converted), Cardinality(converted))
    /\ ScenarioResults[2].conversion_rate = Ratio(30, 190)
    /\ ScenarioResults[2].avg_conversion_value = Ratio(25 * 30, 30)

\* a detail was computed over two rows of one variant, both converted, one
\* of them without a value
C10_Witness ==
    /\ resp.op = "detail" /\ resp.outcome = "ok"
    /\ \E i \in 1..Len(resp.body[1].results.variants) :
          LET result == resp.body[1].results.variants[i]
          IN  /\ result.participants = 2
              /\ result.conversions = 2
              /\ result.total_conversion_value = 5

\* the ExperimentResults of the last detail computed from fetched rows
Results == resp.body[1]

\* the variant result a comparison is about, and the baseline's
Compared(i) == Results.variants[i + 1]
BaselineResult == Results.variants[1]

\* C11: in every variant result conversion_rate is conversions / participants
\* when participants > 0 and 0 otherwise, avg_conversion_value is
\* total_conversion_value / conversions when conversions > 0 and 0 otherwise;
\* no quotient has a zero divisor.
C11_RatesGuardZero ==
    resp.op = "results" =>
        \A i \in 1..Len(Results.variants) :
            LET v == Results.variants[i]
            IN  /\ v.conversion_rate =
                      IF v.participants > 0 THEN Ratio(v.conversions, v.participants)
                      ELSE ZeroRatio
                /\ v.avg_conversion_value =
                      IF v.conversions > 0 THEN Ratio(v.total_conversion_value, v.conversions)
                      ELSE ZeroRatio
                /\ v.conversion_rate.den # 0
                /\ v.avg_conversion_value.den # 0

\* one variant has no participants, the other has participants and no conversion
C11_Witness ==
    /\ resp.op = "results"
    /\ \E i, j \in 1..Len(Results.variants) :
          /\ Results.variants[i].participants = 0
          /\ Results.variants[j].participants > 0 /\ Results.variants[j].conversions = 0

\* C12: the first variant has lift None, and every variant at another
\* position has the lift (rate - baseline_rate) / baseline_rate when the
\* baseline rate is positive, +infinity when it is 0 and the rate is positive,
\* 0 when both are 0.
C12_OnlyFirstVariantHasNoLift ==
    resp.op = "results" =>
        /\ BaselineResult.lift = NoLift
        /\ \A i \in 2..Len(Results.variants) :
              LET rate == Results.variants[i].conversion_rate
                  baseline_rate == BaselineResult.conversion_rate
              IN  Results.variants[i].lift =
                      IF baseline_rate.num > 0
                          THEN [kind |-> "float",
                                num |-> rate.num * baseline_rate.den - baseline_rate.num * rate.den,
                                den |-> rate.den * baseline_rate.num]
                      ELSE IF rate.num > 0 THEN InfLift
                      ELSE [kind |-> "float", num |-> 0, den |-> 1]

\* C13: a detail holds one comparison per variant after the first, in the
\* order of the definition, each with the first variant as its baseline; the
\* baseline_variant is the first variant.
C13_OneComparisonPerOtherVariant ==
    resp.op = "results" =>
        /\ Len(Results.comparisons) = Len(resp.req.variants) - 1
        /\ Results.baseline_variant = resp.req.variants[1].name
        /\ \A i \in 1..Len(Results.comparisons) :
              /\ Results.comparisons[i].baseline = resp.req.variants[1].name
              /\ Results.comparisons[i].variant = resp.req.variants[i + 1].name

\* three variants with rows gave two comparisons
C13_Witness ==
    /\ resp.op = "results"
    /\ Len(resp.req.variants) = 3
    /\ Len(Results.comparisons) = 2
    /\ Cardinality(resp.req.participant_rows) = 3

\* the baseline or the compared variant has no participant, or nobody or
\* everybody of the two converted
Degenerate(i) ==
    \/ BaselineResult.participants = 0
    \/ Compared(i).participants = 0
    \/ BaselineResult.conversions + Compared(i).conversions = 0
    \/ BaselineResult.conversions + Compared(i).conversions =
          BaselineResult.participants + Compared(i).participants

\* C14: a comparison whose baseline or variant has no participants, or whose
\* pooled proportion is 0 or 1, is returned with p_value None, confidence
\* None and is_significant false; the detail is returned all the same.
C14_DegenerateIsInconclusive ==
    resp.op = "results" =>
        /\ resp.outcome = "ok" /\ resp.body # None
        /\ \A i \in 1..Len(Results.comparisons) :
              Degenerate(i) =>
                  /\ Results.comparisons[i].p_value = None
                  /\ Results.comparisons[i].confidence = None
                  /\ Results.comparisons[i].is_significant = FALSE

\* one comparison of 0/100 with 0/100, or of variants that all converted,
\* beside one without participants
C14_Witness ==
    /\ resp.op = "results"
    /\ \E i, j \in 1..Len(Results.comparisons) :
          /\ BaselineResult.participants > 0 /\ Compared(i).participants > 0
          /\ Degenerate(i)
          /\ Compared(j).participants = 0

\* C15: a comparison with a p_value has confidence 1 - p_value, is significant
\* exactly when its confidence is at least 0.95, that is when its p_value is
\* at most 0.05, and its p_value lies in [0, 1].
C15_ConfidenceAndSignificance ==
    resp.op = "results" =>
        \A i \in 1..Len(Results.comparisons) :
            LET c == Results.comparisons[i]
            IN  c.p_value # None =>
                    /\ c.p_value[1] \in 0..ProbScale
                    /\ c.confidence = Some(ProbScale - c.p_value[1])
                    /\ c.is_significant <=> (c.confidence[1] >= SIGNIFICANCE_THRESHOLD)
                    /\ c.is_significant <=> (c.p_value[1] <= ProbScale - SIGNIFICANCE_THRESHOLD)

\* a comparison whose confidence is the threshold itself
C15_Witness ==
    /\ resp.op = "results"
    /\ \E i \in 1..Len(Results.comparisons) :
          /\ Results.comparisons[i].confidence = Some(SIGNIFICANCE_THRESHOLD)
          /\ Results.comparisons[i].is_significant

\* the two rates of comparison i are equal and the pooled proportion is
\* strictly between 0 and 1
SameRates(i) ==
    /\ BaselineResult.participants > 0 /\ Compared(i).participants > 0
    /\ BaselineResult.conversions * Compared(i).participants =
          Compared(i).conversions * BaselineResult.participants
    /\ BaselineResult.conversions + Compared(i).conversions > 0
    /\ BaselineResult.conversions + Compared(i).conversions <
          BaselineResult.participants + Compared(i).participants

\* C16: a comparison of two equal rates with a pooled proportion strictly
\* between 0 and 1 has p_value 1, confidence 0 and is not significant, and
\* its variant is not the suggested winner.
C16_EqualRatesAreNoDifference ==
    resp.op = "results" =>
        \A i \in 1..Len(Results.comparisons) :
            SameRates(i) =>
                /\ Results.comparisons[i].p_value = Some(ProbScale)
                /\ Results.comparisons[i].confidence = Some(0)
                /\ Results.comparisons[i].is_significant = FALSE
                /\ Results.suggested_winner # Some(Results.comparisons[i].variant)

\* 10/100 was compared with 20/200
C16_Witness ==
    /\ resp.op = "results"
    /\ \E i \in 1..Len(Results.comparisons) :
          /\ SameRates(i)
          /\ BaselineResult.participants # Compared(i).participants

\* the comparisons that are significant and whose lift is positive
Winning ==
    {i \in 1..Len(Results.comparisons) :
        /\ Results.comparisons[i].is_significant
        /\ Compared(i).lift.kind \in {"float", "inf"}
        /\ Compared(i).lift.num > 0}

\* C17: suggested_winner names the first variant after the baseline, in the
\* order of the definition, whose comparison is significant and whose lift is
\* positive (+infinity included), and is None when there is none; it is never
\* a variant that is not significant or whose rate does not exceed the
\* baseline's.
C17_FirstSignificantPositiveLift ==
    resp.op = "results" =>
        /\ Winning = {} <=> Results.suggested_winner = None
        /\ \A i \in Winning :
              (\A j \in Winning : i <= j) =>
                  Results.suggested_winner = Some(resp.req.variants[i + 1].name)
        /\ Results.suggested_winner # None =>
              \E i \in 1..Len(Results.comparisons) :
                  /\ Results.suggested_winner = Some(Results.comparisons[i].variant)
                  /\ Results.comparisons[i].is_significant
                  /\ Compared(i).conversion_rate.num * BaselineResult.conversion_rate.den >
                        BaselineResult.conversion_rate.num * Compared(i).conversion_rate.den

\* the second variant is significantly worse than the baseline, the third
\* significantly better, and the third is the winner
C17_Witness ==
    /\ resp.op = "results"
    /\ Len(Results.comparisons) = 2
    /\ Results.comparisons[1].is_significant
    /\ 1 \notin Winning
    /\ 2 \in Winning
    /\ Results.suggested_winner = Some(resp.req.variants[3].name)

\* the confidences that are defined
DefinedConfidences ==
    {Results.comparisons[i].confidence[1] :
        i \in {j \in 1..Len(Results.comparisons) : Results.comparisons[j].confidence # None}}

\* C18: overall_confidence is the largest defined confidence of the
\* comparisons, and None exactly when no comparison has one; a single
\* conclusive comparison of confidence 0 gives overall_confidence 0.
C18_OverallIsMaxDefinedConfidence ==
    resp.op = "results" =>
        /\ DefinedConfidences = {} <=> Results.overall_confidence = None
        /\ DefinedConfidences # {} =>
              /\ Results.overall_confidence # None
              /\ Results.overall_confidence[1] \in DefinedConfidences
              /\ \A c \in DefinedConfidences : c <= Results.overall_confidence[1]

\* the comparison of a 10/200 baseline with a 30/190 second variant
InScenario ==
    /\ resp.op = "results"
    /\ Len(Results.variants) = 2
    /\ BaselineResult.participants = 200 /\ BaselineResult.conversions = 10
    /\ Compared(1).participants = 190 /\ Compared(1).conversions = 30

\* C19: with 10 conversions of 200 for the baseline and 30 of 190 for the
\* second variant the comparison is significant (confidence at least 0.95),
\* its lift is positive and about 2.16, and the second variant is the
\* suggested winner.
C19_ScenarioIsSignificant ==
    (InScenario /\ resp.req.variants[1].name # resp.req.variants[2].name) =>
        /\ Results.comparisons[1].is_significant
        /\ Results.comparisons[1].confidence[1] >= SIGNIFICANCE_THRESHOLD
        /\ Results.comparisons[1].lift.kind = "float"
        /\ 100 * Results.comparisons[1].lift.num >= 215 * Results.comparisons[1].lift.den
        /\ 100 * Results.comparisons[1].lift.num <= 217 * Results.comparisons[1].lift.den
        /\ Results.suggested_winner = Some(resp.req.variants[2].name)

\* the scenario was computed
C19_Witness ==
    /\ InScenario
    /\ resp.req.variants[1].name # resp.req.variants[2].name
    /\ Results.comparisons[1].p_value # None

\* C20: the detail of an experiment that has no assignment reports every
\* defined variant with 0 participants, 0 conversions and rate 0, every
\* comparison without p_value and not significant, no suggested winner and
\* no overall confidence.
C20_FreshExperimentIsAllZero ==
    (/\ resp.op = "detail" /\ resp.outcome = "ok"
     /\ \A r \in participants : r.experiment_id # uuid_UUID(resp.body[1].experiment.id)) =>
        LET results == resp.body[1].results
        IN  /\ Len(results.variants) = Len(resp.body[1].experiment.variants)
            /\ \A i \in 1..Len(results.variants) :
                  /\ results.variants[i].participants = 0
                  /\ results.variants[i].conversions = 0
                  /\ results.variants[i].conversion_rate = ZeroRatio
            /\ Len(results.comparisons) = Len(results.variants) - 1
            /\ \A i \in 1..Len(results.comparisons) :
                  /\ results.comparisons[i].p_value = None
                  /\ results.comparisons[i].is_significant = FALSE
            /\ results.suggested_winner = None
            /\ results.overall_confidence = None

\* a detail of three variants was read right after create, the store empty
C20_Witness ==
    /\ resp.op = "detail" /\ resp.outcome = "ok"
    /\ participants = {}
    /\ Len(resp.body[1].results.variants) = 3
    /\ Len(resp.body[1].results.comparisons) = 2

\* the stored experiments of the tenant a list was asked for
ListedTenant == uuid_UUID(resp.req.tenant_id)
OfListedTenant == {i \in 1..Len(experiments) : experiments[i].tenant_id = ListedTenant}

\* C21: a list holds one summary for each experiment of the requested tenant
\* and none of another tenant, in descending order of created_at, and each
\* summary's conversions is the number of the experiment's rows with
\* converted_at set in the store the query read.
C21_ListIsTenantScopedAndOrdered ==
    (resp.op = "list" /\ resp.outcome = "ok") =>
        LET summaries == resp.body[1]
        IN  /\ Len(summaries) = Cardinality(OfListedTenant)
            /\ {summaries[k].id : k \in 1..Len(summaries)} =
                  {str_uuid(experiments[i].id) : i \in OfListedTenant}
            /\ \A j, k \in 1..Len(summaries) :
                  j < k => summaries[j].created_at >= summaries[k].created_at
            /\ \A k \in 1..Len(summaries) :
                  summaries[k].conversions =
                      Cardinality({r \in participants :
                                      /\ str_uuid(r.experiment_id) = summaries[k].id
                                      /\ r.converted_at # None})

\* two experiments of the tenant were listed, the later one first and with
\* conversions, the other without, while another tenant has an experiment too
C21_Witness ==
    /\ resp.op = "list" /\ resp.outcome = "ok"
    /\ Len(resp.body[1]) = 2
    /\ resp.body[1][1].created_at > resp.body[1][2].created_at
    /\ resp.body[1][1].conversions > 0
    /\ resp.body[1][2].conversions = 0
    /\ \E i \in 1..Len(experiments) : experiments[i].tenant_id # ListedTenant

\* C22 as the spec has it: for a baseline of 10/200 against a variant of
\* 30/190 the z-score (p_a - p_b) / standard_error, the baseline being a, is
\* positive.
C22_ScenarioZScoreIsPositive ==
    InScenario =>
        z_score_sign(BaselineResult.participants, BaselineResult.conversions,
                     Compared(1).participants, Compared(1).conversions) = 1

\* C22, amended: for a baseline of 10/200 against a variant of 30/190 the
\* z-score (p_a - p_b) / standard_error, the baseline being a, is negative
\* (the baseline's rate is the smaller one); the test uses its absolute value.
C22_ScenarioZScoreIsNegative ==
    InScenario =>
        z_score_sign(BaselineResult.participants, BaselineResult.conversions,
                     Compared(1).participants, Compared(1).conversions) = -1

\* the scenario was computed, and its comparison is significant
C22_Witness ==
    /\ InScenario
    /\ Len(Results.comparisons) = 1
    /\ Results.comparisons[1].is_significant
    /\ Results.comparisons[1].lift.num > 0

\* C23: a conversion sent to the endpoint of an experiment the participant
\* does not belong to is answered 400 and the participant's converted_at and
\* conversion_value stay as they were.
C23_MisalignedConversionWritesNothing ==
    (/\ resp.op = "convert" /\ resp.before # None
     /\ resp.before[1].experiment_id # uuid_UUID(resp.req.experiment_id)) =>
        /\ resp.outcome = "400"
        /\ \A r \in participants :
              r.id = resp.before[1].id =>
                  /\ r.converted_at = resp.before[1].converted_at
                  /\ r.conversion_value = resp.before[1].conversion_value

\* C24: every stored experiment keeps the results blob create gave it, and
\* every summary of every list has winner None, whatever the detail of the
\* experiment suggests.
C24_ListWinnerIsNeverComputed ==
    /\ \A i \in 1..Len(experiments) : experiments[i].results = results_default
    /\ (resp.op = "list" /\ resp.outcome = "ok") =>
          \A k \in 1..Len(resp.body[1]) : resp.body[1][k].winner = None

\* a list came back while the detail of one of its experiments suggests a winner
C24_Witness ==
    /\ resp.op = "list" /\ resp.outcome = "ok"
    /\ \E i \in OfListedTenant :
          /\ get_experiment_detail(ListedTenant, experiments[i].id) # None
          /\ get_experiment_detail(ListedTenant, experiments[i].id)[1].results.suggested_winner
                # None

\* the names of a list of variants, and whether no two variants share one
NamesOf(variants) == {variants[i].name : i \in 1..Len(variants)}
DistinctNames(variants) == Cardinality(NamesOf(variants)) = Len(variants)

\* the variant results a detail of experiment id computes from these rows
ResultsOver(rows, variants, id) ==
    build_variant_results(variants, participants_query(rows, id))

\* C25: when a converted participant of variant A is re-assigned to variant
\* B, the detail computed next has one participant, one conversion and the
\* participant's conversion value less under A and as much more under B,
\* every other variant as before; with both variants defined the totals of
\* the experiment are the same.
C25_ReassignmentMovesTheConversion ==
    [][(/\ resp'.op = "assign" /\ resp'.outcome = "ok" /\ resp'.before # None
        /\ resp'.before[1].converted_at # None
        /\ resp'.before[1].variant_name # resp'.req.variant_name) =>
        \A i \in 1..Len(experiments) :
            (experiments[i].id = resp'.before[1].experiment_id
                /\ DistinctNames(experiments[i].variants)) =>
                LET variants == experiments[i].variants
                    was == ResultsOver(participants, variants, experiments[i].id)
                    now == ResultsOver(participants', variants, experiments[i].id)
                    moved == IF resp'.before[1].conversion_value = None THEN 0
                             ELSE resp'.before[1].conversion_value[1]
                    step(k) == IF variants[k].name = resp'.before[1].variant_name THEN -1
                               ELSE IF variants[k].name = resp'.req.variant_name THEN 1
                               ELSE 0
                IN  /\ \A k \in 1..Len(variants) :
                          /\ now[k].participants = was[k].participants + step(k)
                          /\ now[k].conversions = was[k].conversions + step(k)
                          /\ now[k].total_conversion_value =
                                was[k].total_conversion_value + step(k) * moved
                    /\ {resp'.before[1].variant_name, resp'.req.variant_name}
                            \subseteq NamesOf(variants) =>
                          /\ SumSeq([k \in 1..Len(variants) |-> now[k].participants], 1) =
                                SumSeq([k \in 1..Len(variants) |-> was[k].participants], 1)
                          /\ SumSeq([k \in 1..Len(variants) |-> now[k].conversions], 1) =
                                SumSeq([k \in 1..Len(variants) |-> was[k].conversions], 1)
    ]_vars

\* a participant converted with a value under one defined variant was
\* re-assigned to another defined variant of the stored experiment
C25_Witness ==
    /\ resp.op = "assign" /\ resp.outcome = "ok" /\ resp.before # None
    /\ resp.before[1].conversion_value = Some(5)
    /\ resp.before[1].variant_name # resp.req.variant_name
    /\ \E i \in 1..Len(experiments) :
          /\ experiments[i].id = resp.before[1].experiment_id
          /\ DistinctNames(experiments[i].variants)
          /\ {resp.before[1].variant_name, resp.req.variant_name}
                \subseteq NamesOf(experiments[i].variants)

\* C26: every stored row keeps its id and its (experiment_id, identity)
\* through every operation, and a re-assignment returns the id of the row
\* that was there, so an id an assignment returned names a row for good.
C26_RowIdIsStable ==
    [][/\ \A r \in participants :
            \E q \in participants' : q.id = r.id /\ unique_participant(q, r)
       /\ (resp'.op = "assign" /\ resp'.outcome = "ok" /\ resp'.before # None) =>
            /\ resp'.body[1].id = str_uuid(resp'.before[1].id)
            /\ resp'.before[1] \in participants
    ]_vars

\* a re-assignment to another variant came back with the stored row's id,
\* beside another row
C26_Witness ==
    /\ resp.op = "assign" /\ resp.outcome = "ok" /\ resp.before # None
    /\ resp.body[1].id = str_uuid(resp.before[1].id)
    /\ resp.body[1].variant_name # resp.before[1].variant_name
    /\ Cardinality(participants) = 2

\* the rows of an experiment, and those of them that are converted
RowsIn(rows, e) == {r \in rows : r.experiment_id = e}
ConvertedIn(rows, e) == {r \in rows : r.experiment_id = e /\ r.converted_at # None}

\* C27: no operation lowers the number of rows of an experiment or the
\* number of its rows with converted_at set.
C27_RowsAndConversionsNeverDecrease ==
    [][\A e \in {r.experiment_id : r \in participants} :
          /\ Cardinality(RowsIn(participants', e)) >= Cardinality(RowsIn(participants, e))
          /\ Cardinality(ConvertedIn(participants', e)) >=
                Cardinality(ConvertedIn(participants, e))
    ]_vars

\* a converted row was converted again, this time without a value
C27_Witness ==
    /\ resp.op = "convert" /\ resp.outcome = "ok"
    /\ resp.before[1].converted_at # None
    /\ resp.before[1].conversion_value # None
    /\ resp.req.conversion_value = None

\* C28: the stored experiments change only by create, which appends one with
\* the status of its definition; assign, record-conversion, detail and list
\* leave every experiment as it is; no experiment is removed; assignments and
\* conversions are not refused for the experiment's status.
C28_ExperimentsAreFrozen ==
    [][/\ Len(experiments') >= Len(experiments)
       /\ \A i \in 1..Len(experiments) : experiments'[i] = experiments[i]
       /\ resp'.op \in {"assign", "convert", "detail", "list"} => experiments' = experiments
       /\ (resp'.op = "create" /\ resp'.outcome = "ok") =>
            /\ Len(experiments') = Len(experiments) + 1
            /\ experiments'[Len(experiments')].status = resp'.req.status
       /\ resp'.op = "assign" =>
            resp'.outcome \in {"ok", "ValidationError", "ValueError", "SQLAlchemyError"}
       /\ resp'.op = "convert" =>
            resp'.outcome \in {"ok", "400", "ValueError", "NoResultFound"}
    ]_vars

\* an assignment to an archived experiment was accepted
C28_Witness ==
    /\ resp.op = "assign" /\ resp.outcome = "ok"
    /\ \E i \in 1..Len(experiments) :
          /\ experiments[i].id = uuid_UUID(resp.req.experiment_id)
          /\ experiments[i].status = "archived"

\* the converted rows of an experiment whose variant_name it does not define
UndefinedConverted(i) ==
    {r \in ConvertedIn(participants, experiments[i].id) :
        r.variant_name \notin NamesOf(experiments[i].variants)}

\* the conversions over the variants of the detail of a stored experiment
DetailConversions(i) ==
    LET results == ResultsOver(participants, experiments[i].variants, experiments[i].id)
    IN  SumSeq([k \in 1..Len(results) |-> results[k].conversions], 1)

\* C29: an assignment is stored under the variant_name it gives, defined or
\* not; a detail has one result per defined variant; for an experiment of
\* distinct variant names the conversions over the detail's variants are at
\* most the conversions of its list summary, and equal to them exactly when
\* no converted row names an undefined variant.
C29_UndefinedVariantsOnlyInList ==
    /\ (resp.op = "assign" /\ resp.outcome = "ok") =>
          \E r \in participants :
              /\ str_uuid(r.id) = resp.body[1].id
              /\ r.variant_name = resp.req.variant_name
    /\ \A i \in 1..Len(experiments) :
          /\ Len(ResultsOver(participants, experiments[i].variants, experiments[i].id)) =
                Len(experiments[i].variants)
          /\ DistinctNames(experiments[i].variants) =>
                /\ DetailConversions(i) <= summary(experiments[i]).conversions
                /\ (DetailConversions(i) = summary(experiments[i]).conversions)
                      <=> (UndefinedConverted(i) = {})

\* an experiment has a converted row of an undefined variant beside a
\* converted row of a defined one, and a list has just counted both
C29_Witness ==
    /\ resp.op = "list" /\ resp.outcome = "ok"
    /\ \E i \in 1..Len(experiments), k \in 1..Len(resp.body[1]) :
          /\ resp.body[1][k].id = str_uuid(experiments[i].id)
          /\ UndefinedConverted(i) # {}
          /\ DetailConversions(i) > 0
          /\ resp.body[1][k].conversions > DetailConversions(i)

\* C30: in every detail computed from the store each variant has
\* 0 <= conversions <= participants, so each rate and each pooled proportion
\* is within [0, 1] and the variance under the square root is not negative;
\* a comparison of two variants with participants and a pooled proportion
\* strictly between 0 and 1 has a p_value.
C30_CountsAreConsistent ==
    (resp.op = "detail" /\ resp.outcome = "ok") =>
        LET results == resp.body[1].results
            first == results.variants[1]
        IN  /\ \A i \in 1..Len(results.variants) :
                  /\ 0 <= results.variants[i].conversions
                  /\ results.variants[i].conversions <= results.variants[i].participants
                  /\ 0 <= results.variants[i].conversion_rate.num
                  /\ results.variants[i].conversion_rate.num <=
                        results.variants[i].conversion_rate.den
            /\ \A i \in 1..Len(results.comparisons) :
                  LET other == results.variants[i + 1]
                      converted == first.conversions + other.conversions
                      all == first.participants + other.participants
                  IN  /\ 0 <= converted /\ converted <= all
                      /\ converted * (all - converted) >= 0
                      /\ (/\ first.participants > 0 /\ other.participants > 0
                          /\ 0 < converted /\ converted < all) =>
                            results.comparisons[i].p_value # None

\* a detail compared two variants that have participants, one converted
C30_Witness ==
    /\ resp.op = "detail" /\ resp.outcome = "ok"
    /\ \E i \in 1..Len(resp.body[1].results.comparisons) :
          /\ resp.body[1].results.variants[1].participants > 0
          /\ resp.body[1].results.variants[i + 1].participants > 0
          /\ resp.body[1].results.comparisons[i].p_value # None

====
